---- MODULE Spec2Model ----
(***************************************************************************)
(* MyAwesomeAgent (src/agents/my_awesome_agent.py): a random game-playing  *)
(* agent.  The decision engine (is_done, choose_action) and the frame      *)
(* recorder (append_frame, save_frame_to_file) are modelled as operations  *)
(* on agent instances that share one Python process: the GameAction enum   *)
(* members, the random generator, the clock and the file system are        *)
(* process-wide; game_id, frames_dir and frames belong to an instance.     *)
(***************************************************************************)
EXTENDS Integers, Sequences, FiniteSets, TLC

VARIABLES
    status,       \* per instance: "none" (not constructed), "ready", "failed"
    game_id,      \* per instance: self.game_id
    frames_dir,   \* per instance: self.frames_dir, a path (sequence of parts)
    frames,       \* per instance: self.frames, the frame history
    rng_seed,     \* process-wide: the seed last given to random.seed
    action_data,  \* process-wide: attribute action_data of each GameAction member
    reasoning,    \* process-wide: attribute reasoning of each GameAction member
    dirs,         \* file system: the directories that exist
    files,        \* file system: path -> content of every file that exists
    now,          \* time.time() in milliseconds
    call,         \* the last call made by the driver, its arguments and outcome
    arrived,      \* per instance: the frames handed to append_frame, in order
    wlog          \* every write save_frame_to_file attempted, in order

vars == <<status, game_id, frames_dir, frames, rng_seed, action_data, reasoning,
          dirs, files, now, call, arrived, wlog>>

engine_vars == <<rng_seed, action_data, reasoning>>
instance_vars == <<status, game_id, frames_dir, frames>>
recorder_vars == <<dirs, files, arrived, wlog>>

\* ---------------------------------------------------------------- bounds

\* Frames appended per run, over all instances.
MaxFrames == 2
\* Last millisecond the clock reaches.
MaxClock == 1

Agents == {"a1", "a2"}
GameIds == {"g1", "g2"}
\* Python's None, and a Python str, as attribute values.
None == [py |-> "None"]
Str(s) == [py |-> "str", s |-> s]
\* No action returned (the call raised).
NoAction == "NoAction"
\* The attribute of an instance that is not constructed.
Unset == "unset"

\* ------------------------------------------------- agents.structs (given)

NOT_PLAYED == "GameState.NOT_PLAYED"
NOT_FINISHED == "GameState.NOT_FINISHED"
WIN == "GameState.WIN"
GAME_OVER == "GameState.GAME_OVER"
GameState == {NOT_PLAYED, NOT_FINISHED, WIN, GAME_OVER}

RESET == "GameAction.RESET"
ACTION1 == "GameAction.ACTION1"
ACTION2 == "GameAction.ACTION2"
ACTION6 == "GameAction.ACTION6"
GameAction == {RESET, ACTION1, ACTION2, ACTION6}

\* The two shapes of an action kind.
is_simple(action) == action \in {RESET, ACTION1, ACTION2}
is_complex(action) == action \in {ACTION6}

\* member.value of an enum member.
value(member) ==
    CASE member = NOT_PLAYED -> "NOT_PLAYED"
      [] member = NOT_FINISHED -> "NOT_FINISHED"
      [] member = WIN -> "WIN"
      [] member = GAME_OVER -> "GAME_OVER"
      [] member = RESET -> 0
      [] member = ACTION1 -> 1
      [] member = ACTION2 -> 2
      [] member = ACTION6 -> 6

\* Frame payloads: no content, or one grid.
Payloads == {<< >>, << <<1, 2>> >>}
AvailableActions == {<< >>, <<ACTION1, ACTION6>>}

FrameData ==
    [game_id : GameIds, frame : Payloads, state : GameState, score : {0, 3},
     guid : {"guid", "guid-2"}, full_reset : BOOLEAN,
     available_actions : AvailableActions]

is_empty(frame) == Len(frame.frame) = 0

\* ------------------------------------------------------- decision engine

\* any([...]) of a list of booleans.
any(conds) == \E i \in DOMAIN conds : conds[i]

IsDoneWinOrGameOver(frames_arg, latest_frame) ==
    any(<<latest_frame.state = WIN, latest_frame.state = GAME_OVER>>)

is_done(frames_arg, latest_frame) ==
    any(<<latest_frame.state = WIN>>)

ResetStatesNotPlayedOnly == {NOT_PLAYED}

\* The states in which the game has to be (re)started.
ResetStates == {NOT_PLAYED, GAME_OVER}

CandidatesAnyAction(latest_frame) ==
    IF latest_frame.state \in ResetStates THEN {RESET} ELSE GameAction

CandidatesAvailable(latest_frame) ==
    IF latest_frame.state \in ResetStates
    THEN {RESET}
    ELSE {a \in GameAction : a # RESET /\ \E i \in DOMAIN latest_frame.available_actions :
                                            latest_frame.available_actions[i] = a}

\* The kinds the first branch of choose_action can bind to `action`.
Candidates(latest_frame) ==
    IF latest_frame.state \in ResetStates
    THEN {RESET}
    ELSE {a \in GameAction : a # RESET}

GRID_MAX == 63

RandIntHalfOpen(lo, hi) == lo .. (hi + 1)

\* random.randint(lo, hi): every integer of the closed range.
RandInt(lo, hi) == lo .. hi

\* The draws the specifications with many calls enumerate: the two ends of the
\* range.  SpecDraw enumerates every draw.
Ends(S) == {v \in S : (\A w \in S : v <= w) \/ (\A w \in S : v >= w)}

\* action.set_data(data) of a complex kind: the payload schema it validates.
SchemaOk(data) == data.x \in 0 .. GRID_MAX /\ data.y \in 0 .. GRID_MAX

\* f"RNG told me to pick {action.value}"
SimpleReasoning(action) == Str("RNG told me to pick " \o ToString(value(action)))

\* {"desired_action": f"{action.value}", "my_reason": "RNG said so!"}
ComplexReasoning(action) ==
    [desired_action |-> ToString(value(action)), my_reason |-> "RNG said so!"]

\* The random draws choose_action makes for `action`, each drawn from D.
Draws(action, D) ==
    IF is_simple(action) THEN {None}
    ELSE IF is_complex(action) THEN [x : D, y : D]
    ELSE {None}

AttachComplexOnly(action, data) ==
    IF is_complex(action)
    THEN [attr \in {"action_data", "reasoning"} |->
            IF attr = "action_data" THEN data ELSE ComplexReasoning(action)]
    ELSE [attr \in {} |-> None]

\* The attributes choose_action assigns to `action` before returning it.
Attach(action, data) ==
    IF is_simple(action)
    THEN [attr \in {"reasoning"} |-> SimpleReasoning(action)]
    ELSE IF is_complex(action)
    THEN [attr \in {"action_data", "reasoning"} |->
            IF attr = "action_data" THEN data ELSE ComplexReasoning(action)]
    ELSE [attr \in {} |-> None]

\* set_data of a complex kind whose schema admits coordinates 0 .. grid.
SchemaAccepts(data, grid) == data.x \in 0 .. grid /\ data.y \in 0 .. grid

RaisesNever(action, rejected) == FALSE

\* set_data is called in the complex branch only, outside any try: what it raises
\* leaves choose_action.
RaisesIf(action, rejected) == ~is_simple(action) /\ is_complex(action) /\ rejected

\* choose_action raises when set_data rejects the payload.
Raises(action, data) == RaisesIf(action, ~SchemaOk(data))

\* A frame as the game service sends it.
Frame(g, payload, state, available) ==
    [game_id |-> g, frame |-> payload, state |-> state, score |-> 0,
     guid |-> "guid", full_reset |-> FALSE, available_actions |-> available]

Grid == << <<1, 2>> >>

\* The latest frames the driver passes to the decision engine: every state, with
\* and without available actions.
LatestFrames ==
    {f \in FrameData :
        /\ f.game_id = "g1" /\ f.score = 0 /\ f.guid = "guid" /\ ~f.full_reset
        /\ f.frame = (IF f.state = NOT_PLAYED THEN << >> ELSE Grid)}

\* The frame histories the driver passes to the decision engine.
EngineHistories ==
    {<< >>,
     <<Frame("g1", Grid, NOT_FINISHED, << >>)>>,
     <<Frame("g1", << >>, NOT_PLAYED, << >>), Frame("g1", Grid, WIN, << >>),
       Frame("g1", Grid, GAME_OVER, << >>)>>}

\* ------------------------------------------------------------------ Init

Init ==
    /\ status = [a \in Agents |-> "none"]
    /\ game_id = [a \in Agents |-> Unset]
    /\ frames_dir = [a \in Agents |-> << >>]
    /\ frames = [a \in Agents |-> << >>]
    /\ rng_seed = 0
    /\ action_data = [k \in GameAction |-> None]
    /\ reasoning = [k \in GameAction |-> None]
    /\ dirs = {}
    /\ files = << >>
    /\ now = 0
    /\ call = [op |-> "none"]
    /\ arrived = [a \in Agents |-> << >>]
    /\ wlog = << >>

GameOf(a) == IF a = "a1" THEN "g1" ELSE "g2"

\* Both instances constructed, a1 for g1 and then a2 for g2, at time 0.
InitReady ==
    /\ status = [a \in Agents |-> "ready"]
    /\ game_id = [a \in Agents |-> GameOf(a)]
    /\ frames_dir = [a \in Agents |-> <<"frames", GameOf(a)>>]
    /\ frames = [a \in Agents |-> << >>]
    /\ rng_seed = 7
    /\ action_data = [k \in GameAction |-> None]
    /\ reasoning = [k \in GameAction |-> None]
    /\ dirs = {<<"frames", g>> : g \in GameIds}
    /\ files = << >>
    /\ now = 0
    /\ call = [op |-> "none"]
    /\ arrived = [a \in Agents |-> << >>]
    /\ wlog = << >>

\* hash(self.game_id)
Hash(g) == IF g = "g1" THEN 7000003 ELSE 9000007

\* int(time.time() * 1000000) + hash(self.game_id) % 1000000
Seed(ms, g) == ms * 1000 + (Hash(g) % 1000000)

\* os.path.join
Join(path, part) == Append(path, part)

MakedirsOutcomes == {"ok", "error"}

\* The driver runs one instance per game: no other instance has game_id g.
FreshGame(g) == \A b \in Agents : game_id[b] # g

\* MyAwesomeAgent(game_id = g)
Construct(a, g) ==
    /\ status[a] = "none"
    /\ FreshGame(g)
    /\ \E outcome \in MakedirsOutcomes :
          /\ game_id' = [game_id EXCEPT ![a] = g]
          /\ frames' = [frames EXCEPT ![a] = << >>]
          /\ rng_seed' = Seed(now, g)
          /\ frames_dir' = [frames_dir EXCEPT ![a] = Join(<<"frames">>, g)]
          /\ IF outcome = "ok"
             THEN /\ dirs' = dirs \cup {Join(<<"frames">>, g)}
                  /\ status' = [status EXCEPT ![a] = "ready"]
             ELSE /\ dirs' = dirs
                  /\ status' = [status EXCEPT ![a] = "failed"]
          /\ call' = [op |-> "__init__", agent |-> a, raised |-> outcome # "ok"]
    /\ UNCHANGED <<action_data, reasoning, files, now, arrived, wlog>>

\* a.is_done(frames_arg, latest_frame)
IsDoneOn(a, frames_arg, latest_frame) ==
    /\ status[a] = "ready"
    /\ call' = [op |-> "is_done", agent |-> a, frames |-> frames_arg,
                latest |-> latest_frame,
                result |-> is_done(frames_arg, latest_frame), raised |-> FALSE]
    /\ UNCHANGED <<instance_vars, engine_vars, recorder_vars, now>>

IsDoneCall(a) ==
    \E frames_arg \in EngineHistories, latest_frame \in LatestFrames :
        IsDoneOn(a, frames_arg, latest_frame)

\* a.choose_action(frames_arg, latest_frame), with each coordinate drawn from D
\* and the schema of the complex kinds admitting 0 .. grid.
ChooseActionOn(a, frames_arg, latest_frame, D, grid) ==
    /\ status[a] = "ready"
    /\ \E action \in Candidates(latest_frame) :
       \E data \in Draws(action, D) :
          LET att == Attach(action, data)
              raised == RaisesIf(action, ~SchemaAccepts(data, grid))
          IN  /\ reasoning' =
                    IF ~raised /\ "reasoning" \in DOMAIN att
                    THEN [reasoning EXCEPT ![action] = att["reasoning"]]
                    ELSE reasoning
              /\ action_data' =
                    IF ~raised /\ "action_data" \in DOMAIN att
                    THEN [action_data EXCEPT ![action] = att["action_data"]]
                    ELSE action_data
              /\ call' = [op |-> "choose_action", agent |-> a, frames |-> frames_arg,
                          latest |-> latest_frame,
                          candidates |-> Candidates(latest_frame),
                          action |-> action, data |-> data, grid |-> grid,
                          result |-> IF raised THEN NoAction ELSE action,
                          attached |-> IF raised THEN {} ELSE DOMAIN att,
                          raised |-> raised]
    /\ UNCHANGED <<instance_vars, rng_seed, recorder_vars, now>>

ChooseAction(a, D) ==
    \E frames_arg \in EngineHistories, latest_frame \in LatestFrames :
        ChooseActionOn(a, frames_arg, latest_frame, D, GRID_MAX)

\* choose_action with the coordinate draws sampled at both ends of the range.
choose_action(a) == ChooseAction(a, Ends(RandInt(0, GRID_MAX)))

\* The first choose_action of a process, with every draw of the range.
choose_action_first(a) ==
    /\ \A k \in GameAction : reasoning[k] = None
    /\ ChooseAction(a, RandInt(0, GRID_MAX))

\* ---------------------------------------------------------- frame recorder

\* The frames the game service sends to the recorder.
Arrivals ==
    {Frame("g1", << >>, NOT_PLAYED, << >>),
     Frame("g1", Grid, NOT_FINISHED, <<ACTION1, ACTION6>>),
     [Frame("g2", Grid, GAME_OVER, << >>) EXCEPT !.full_reset = TRUE],
     [Frame("g2", Grid, WIN, <<ACTION1, ACTION6>>) EXCEPT !.score = 3, !.guid = "guid-2"]}

DigitChar(d) == <<"0", "1", "2", "3", "4", "5", "6", "7", "8", "9">>[d + 1]

\* str(n) of an integer n >= 0, as its characters.
RECURSIVE Decimal(_)
Decimal(n) ==
    IF n < 10 THEN <<DigitChar(n)>> ELSE Decimal(n \div 10) \o <<DigitChar(n % 10)>>

RECURSIVE ZeroPad(_, _)
ZeroPad(chars, width) ==
    IF Len(chars) >= width THEN chars ELSE ZeroPad(<<"0">> \o chars, width)

\* f"{n:04d}": zero-padded to at least four characters.
Format04d(n) == ZeroPad(Decimal(n), 4)

FilenameTimestampOnly(frame_number, timestamp) ==
    <<"f", "r", "a", "m", "e", "_">> \o Decimal(timestamp)
        \o <<".", "j", "s", "o", "n">>

\* f"frame_{frame_number:04d}_{timestamp}.json", as its characters.
filename(frame_number, timestamp) ==
    <<"f", "r", "a", "m", "e", "_">> \o Format04d(frame_number) \o <<"_">>
        \o Decimal(timestamp) \o <<".", "j", "s", "o", "n">>

FrameDataStateMember(frame, frame_number, timestamp) ==
    [frame_number |-> frame_number,
     timestamp |-> timestamp,
     game_id |-> frame.game_id,
     frame |-> frame.frame,
     state |-> frame.state,
     score |-> frame.score,
     guid |-> frame.guid,
     full_reset |-> frame.full_reset,
     available_actions |->
        [i \in DOMAIN frame.available_actions |-> value(frame.available_actions[i])]]

\* The dict save_frame_to_file builds.
frame_data(frame, frame_number, timestamp) ==
    [frame_number |-> frame_number,
     timestamp |-> timestamp,
     game_id |-> frame.game_id,
     frame |-> frame.frame,
     state |-> value(frame.state),
     score |-> frame.score,
     guid |-> frame.guid,
     full_reset |-> frame.full_reset,
     available_actions |->
        [i \in DOMAIN frame.available_actions |-> value(frame.available_actions[i])]]

\* JSON values.
JNumber(n) == [json |-> "number", v |-> n]
JString(str) == [json |-> "string", v |-> str]
JBool(b) == [json |-> IF b THEN "true" ELSE "false"]
JArray(items) == [json |-> "array", v |-> items]
JNumbers(seq) == JArray([i \in DOMAIN seq |-> JNumber(seq[i])])

\* json.dump(frame_data): the JSON object written to the file.
json_dump(d) ==
    [frame_number |-> JNumber(d.frame_number),
     timestamp |-> JNumber(d.timestamp),
     game_id |-> JString(d.game_id),
     frame |-> JArray([i \in DOMAIN d.frame |-> JNumbers(d.frame[i])]),
     state |-> JString(d.state),
     score |-> JNumber(d.score),
     guid |-> JString(d.guid),
     full_reset |-> JBool(d.full_reset),
     available_actions |-> JNumbers(d.available_actions)]

\* json.load of a JSON value.
RECURSIVE json_value(_)
json_value(j) ==
    CASE j.json = "number" -> j.v
      [] j.json = "string" -> j.v
      [] j.json = "true" -> TRUE
      [] j.json = "false" -> FALSE
      [] j.json = "array" -> [i \in DOMAIN j.v |-> json_value(j.v[i])]

\* json.load of a record file.
json_load(object) == [k \in DOMAIN object |-> json_value(object[k])]

SaveOutcomes == {"ok", "open_error", "dump_error"}

ShouldSaveAlways(frame) == TRUE

\* if not frame.is_empty()
should_save(frame) == ~is_empty(frame)

CaughtOpenOnly(outcome) == outcome = "open_error"

\* try: open, json.dump / except Exception
Caught(outcome) == outcome \in {"open_error", "dump_error"}

Put(fs, path, content) ==
    [p \in DOMAIN fs \cup {path} |-> IF p = path THEN content ELSE fs[p]]

\* The file system after open(filepath, 'w') and json.dump(frame_data, f).
FilesAfterWrite(fs, path, data, outcome) ==
    CASE outcome = "ok" -> Put(fs, path, [complete |-> TRUE, json |-> json_dump(data)])
      [] outcome = "dump_error" -> Put(fs, path, [complete |-> FALSE])
      [] outcome = "open_error" -> fs

\* Agent.append_frame of the base class: the history with the frame appended.
super_append_frame(history, frame) == Append(history, frame)

HistoryAppendNonEmpty(history, frame) ==
    IF is_empty(frame) THEN history ELSE super_append_frame(history, frame)

\* super().append_frame(frame)
HistoryAfterAppend(history, frame) == super_append_frame(history, frame)

FrameNumberLen(history) == Len(history)

\* frame_number = len(self.frames) - 1
FrameNumber(history) == Len(history) - 1

Calls == Len(arrived["a1"]) + Len(arrived["a2"])

\* a.append_frame(frame), save_frame_to_file included.
AppendFrame(a) ==
    /\ status[a] = "ready"
    /\ \E frame \in Arrivals, outcome \in SaveOutcomes :
          LET history == HistoryAfterAppend(frames[a], frame)
              frame_number == FrameNumber(history)
              timestamp == now
              name == filename(frame_number, timestamp)
              filepath == Join(frames_dir[a], name)
              data == frame_data(frame, frame_number, timestamp)
              saving == should_save(frame)
              after == FilesAfterWrite(files, filepath, data, outcome)
          IN  /\ frames' = [frames EXCEPT ![a] = history]
              /\ files' = IF saving THEN after ELSE files
              /\ wlog' =
                    IF saving
                    THEN Append(wlog, [agent |-> a, dir |-> frames_dir[a],
                                       frame_number |-> frame_number,
                                       timestamp |-> timestamp, name |-> name,
                                       filepath |-> filepath, outcome |-> outcome])
                    ELSE wlog
              /\ arrived' = [arrived EXCEPT ![a] = Append(@, frame)]
              /\ call' = [op |-> "append_frame", agent |-> a, frame |-> frame,
                          outcome |-> IF saving THEN outcome ELSE "skipped",
                          raised |-> saving /\ outcome # "ok" /\ ~Caught(outcome)]
    /\ UNCHANGED <<status, game_id, frames_dir, engine_vars, dirs, now>>

append_frame(a) == Calls < MaxFrames /\ AppendFrame(a)

\* A millisecond passes.
Tick ==
    /\ now < MaxClock
    /\ now' = now + 1
    /\ UNCHANGED <<instance_vars, engine_vars, recorder_vars, call>>

NextRecorder ==
    \/ \E a \in Agents, g \in GameIds : Construct(a, g)
    \/ \E a \in Agents : append_frame(a)
    \/ Tick

SpecRecorder == Init /\ [][NextRecorder]_vars

NextEngine ==
    \E a \in Agents :
        \/ IsDoneCall(a)
        \/ choose_action(a)

SpecEngine == InitReady /\ [][NextEngine]_vars

NextDraw ==
    \E a \in Agents :
        choose_action_first(a)

SpecDraw == InitReady /\ [][NextDraw]_vars

\* ------------------------------------------------------- the decision loop

MaxSession == 3

Player == "a1"

Last(history) == history[Len(history)]

\* The driver receives a frame from the game service and appends it.
LoopReceive ==
    /\ call.op \in {"none", "choose_action"}
    /\ call.op = "choose_action" => ~call.raised
    /\ Len(frames[Player]) < MaxSession
    /\ AppendFrame(Player)

\* The driver asks is_done about its history and the frame just appended.
LoopIsDone ==
    /\ call.op = "append_frame"
    /\ ~call.raised
    /\ IsDoneOn(Player, frames[Player], Last(frames[Player]))

\* Not done: the driver asks for the action to submit.
LoopChoose ==
    /\ call.op = "is_done"
    /\ ~call.result
    /\ ChooseActionOn(Player, frames[Player], Last(frames[Player]),
                      Ends(RandInt(0, GRID_MAX)), GRID_MAX)

NextLoop ==
    \/ LoopReceive
    \/ LoopIsDone
    \/ LoopChoose

SpecLoop == InitReady /\ [][NextLoop]_vars

\* One session: the frames of one instance, appended as they arrive.
SessionAppend ==
    /\ Len(frames[Player]) < MaxSession
    /\ AppendFrame(Player)

NextSession ==
    \/ SessionAppend
    \/ Tick

SpecSession == InitReady /\ [][NextSession]_vars

\* ------------------------------------------------------ payload rejected

\* The largest coordinate the schema of the complex kinds may admit: the grid the
\* code draws for, or one cell less.
SchemaGrids == {GRID_MAX - 1, GRID_MAX}

\* choose_action against either schema.
ChooseChecked ==
    \E grid \in SchemaGrids, frames_arg \in EngineHistories, latest_frame \in LatestFrames :
        ChooseActionOn(Player, frames_arg, latest_frame, Ends(RandInt(0, GRID_MAX)), grid)

NextSchema == ChooseChecked

SpecSchema == InitReady /\ [][NextSchema]_vars

\* ------------------------------------------------------------- file names

MaxDigits == 5

RECURSIVE Pow10(_)
Pow10(d) == IF d = 0 THEN 1 ELSE 10 * Pow10(d - 1)

\* Frame numbers around every change of the number of digits, up to MaxDigits.
FrameNumbers ==
    UNION {{Pow10(d) - 1, Pow10(d), 2 * Pow10(d)} : d \in 0 .. MaxDigits}

\* Timestamps of one and of two digits.
Timestamps == {0, 9, 10}

\* The names save_frame_to_file gives to two records of one directory.
NamePair ==
    /\ call.op = "none"
    /\ \E i \in FrameNumbers, j \in FrameNumbers, ti \in Timestamps, tj \in Timestamps :
          /\ call' = [op |-> "filename", i |-> i, j |-> j,
                      name_i |-> filename(i, ti), name_j |-> filename(j, tj)]
          /\ UNCHANGED <<instance_vars, engine_vars, recorder_vars, now>>

NextNames == NamePair

SpecNames == InitReady /\ [][NextNames]_vars

\* ------------------------------------------------------------ properties

\* C1: for every frame history and every latest frame, is_done returns true when
\* latest.state is WIN and false for every other state.
C1_IsDoneIffWin ==
    call.op = "is_done" => call.result = (call.latest.state = WIN)

C1_Witness ==
    /\ call.op = "is_done"
    /\ call.frames = << >>
    /\ call.latest.state = GAME_OVER
    /\ call.result = FALSE

\* C2: when latest.state is NOT_PLAYED or GAME_OVER, choose_action returns RESET,
\* whatever the frame history holds.
C2_ResetWhenNotStarted ==
    (call.op = "choose_action" /\ call.latest.state \in {NOT_PLAYED, GAME_OVER})
        => (call.action = RESET /\ call.result = RESET)

C2_Witness ==
    /\ call.op = "choose_action"
    /\ call.frames # << >>
    /\ call.latest.state = GAME_OVER
    /\ call.result = RESET

\* C3: when latest.state is neither NOT_PLAYED nor GAME_OVER, choose_action never
\* picks or returns RESET, in any call of a run.
C3_NoResetWhenActive ==
    (call.op = "choose_action" /\ call.latest.state \notin {NOT_PLAYED, GAME_OVER})
        => (call.action # RESET /\ call.result # RESET)

C3_Witness ==
    /\ call.op = "choose_action"
    /\ call.latest.state = WIN
    /\ call.result = ACTION6
    /\ reasoning[ACTION1] # None

\* C4: a call of choose_action that picks a complex kind returns it, carrying
\* integer coordinates x and y in 0 .. GRID_MAX, for every draw.
C4_CoordinatesInGrid ==
    (call.op = "choose_action" /\ is_complex(call.action))
        => /\ call.result = call.action
           /\ action_data[call.action].x \in 0 .. GRID_MAX
           /\ action_data[call.action].y \in 0 .. GRID_MAX

C4_Witness ==
    /\ call.op = "choose_action"
    /\ is_complex(call.result)
    /\ action_data[call.result].x = 0
    /\ action_data[call.result].y = GRID_MAX

\* C5: every action choose_action returns was given its attachment in that call:
\* a complex action an {x, y} payload and a structured justification, a simple
\* action (RESET included) a justification string.
C5_AttachedBeforeReturn ==
    (call.op = "choose_action" /\ call.result # NoAction)
        => /\ is_simple(call.result) \/ is_complex(call.result)
           /\ is_simple(call.result) =>
                 /\ "reasoning" \in call.attached
                 /\ reasoning[call.result].py = "str"
           /\ is_complex(call.result) =>
                 /\ {"action_data", "reasoning"} \subseteq call.attached
                 /\ DOMAIN action_data[call.result] = {"x", "y"}
                 /\ DOMAIN reasoning[call.result] = {"desired_action", "my_reason"}

C5_Witness ==
    /\ call.op = "choose_action"
    /\ call.result = RESET
    /\ "reasoning" \in call.attached
    /\ action_data[ACTION6] # None

\* The record files in a directory.
RecordsIn(dir) == {p \in DOMAIN files : SubSeq(p, 1, Len(dir)) = dir}

\* The writes an instance attempted.
WritesOf(a) == {i \in DOMAIN wlog : wlog[i].agent = a}

\* C6: no failure to open the file or to dump the record propagates out of
\* append_frame: every call returns normally.
C6_RecorderNeverRaises ==
    call.op = "append_frame" => ~call.raised

C6_Witness ==
    /\ call.op = "append_frame"
    /\ call.outcome = "dump_error"
    /\ ~call.raised
    /\ \E i \in DOMAIN wlog : wlog[i].outcome = "open_error"

\* C7: when every write of an instance succeeded, each non-empty frame at index k
\* of its history has exactly one record, whose frame_number is k, and every
\* record in its directory is the record of a non-empty frame of the history.
C7_OneRecordPerFrame ==
    \A a \in Agents :
        (status[a] = "ready" /\ \A i \in WritesOf(a) : wlog[i].outcome = "ok") =>
            /\ \A k \in 0 .. Len(frames[a]) - 1 :
                  ~is_empty(frames[a][k + 1]) =>
                      Cardinality({p \in RecordsIn(frames_dir[a]) :
                                      /\ files[p].complete
                                      /\ json_load(files[p].json).frame_number = k}) = 1
            /\ \A p \in RecordsIn(frames_dir[a]) :
                  /\ files[p].complete
                  /\ LET r == json_load(files[p].json)
                     IN  /\ r.frame_number \in 0 .. Len(frames[a]) - 1
                         /\ ~is_empty(frames[a][r.frame_number + 1])
                         /\ r.frame = frames[a][r.frame_number + 1].frame
                         /\ r.game_id = frames[a][r.frame_number + 1].game_id
                         /\ r.state = value(frames[a][r.frame_number + 1].state)

C7_Witness ==
    \E a \in Agents :
        /\ Len(frames[a]) = 2
        /\ is_empty(frames[a][1])
        /\ ~is_empty(frames[a][2])
        /\ \A i \in WritesOf(a) : wlog[i].outcome = "ok"
        /\ \E p \in RecordsIn(frames_dir[a]) : json_load(files[p].json).frame_number = 1

\* C8: appending an empty frame writes nothing and raises nothing: the files are
\* as before, and the frame is appended to the history.
C8_EmptyFrameNoRecord ==
    [][\A a \in Agents :
          (/\ Len(arrived'[a]) = Len(arrived[a]) + 1
           /\ is_empty(arrived'[a][Len(arrived'[a])]))
              => /\ files' = files
                 /\ wlog' = wlog
                 /\ ~call'.raised
                 /\ frames'[a] = Append(frames[a], arrived'[a][Len(arrived'[a])])]_vars

C8_Witness ==
    /\ call.op = "append_frame"
    /\ is_empty(call.frame)
    /\ call.outcome = "skipped"
    /\ Len(frames[call.agent]) = 2
    /\ frames[call.agent][2] = call.frame
    /\ Cardinality(RecordsIn(frames_dir[call.agent])) = 1

\* C9: any two frames recorded in the same directory get distinct file names, also
\* within one millisecond, and no record written is overwritten later.
C9_NoCollision ==
    /\ \A i, j \in DOMAIN wlog :
          (i < j /\ wlog[i].dir = wlog[j].dir) => wlog[i].name # wlog[j].name
    /\ \A i \in DOMAIN wlog :
          wlog[i].outcome = "ok" =>
              /\ wlog[i].filepath \in DOMAIN files
              /\ files[wlog[i].filepath].complete
              /\ json_load(files[wlog[i].filepath].json).frame_number = wlog[i].frame_number

C9_Witness ==
    \E i, j \in DOMAIN wlog :
        /\ i < j
        /\ wlog[i].dir = wlog[j].dir
        /\ wlog[i].timestamp = wlog[j].timestamp
        /\ wlog[i].outcome = "ok"
        /\ wlog[j].outcome = "ok"

\* C10: the frame history of an instance is the sequence of the frames handed to
\* append_frame, in arrival order, whatever the frames and the writes were.
C10_HistoryIsArrivalOrder ==
    \A a \in Agents : frames[a] = arrived[a]

C10_Witness ==
    \E a \in Agents :
        /\ Len(frames[a]) = 2
        /\ is_empty(frames[a][1])
        /\ \E i \in WritesOf(a) : wlog[i].outcome # "ok"

\* C11: nothing an instance does in choose_action changes the value (payload,
\* reasoning) of the action another instance obtained from its own choose_action
\* in the call just before and still holds.
C11_HeldActionUntouched ==
    [][(/\ call.op = "choose_action"
        /\ call.result # NoAction
        /\ call'.op = "choose_action"
        /\ call'.agent # call.agent)
          => /\ action_data'[call.result] = action_data[call.result]
             /\ reasoning'[call.result] = reasoning[call.result]]_vars

\* The frame a write was attempted for.
FrameOf(entry) == frames[entry.agent][entry.frame_number + 1]

\* C12: the record written for a non-empty frame parses back to the values of the
\* frame: frame_number, game_id, frame, state (its enum value), score, guid,
\* full_reset and available_actions (the action values, in order).
C12_RecordRoundTrip ==
    \A i \in DOMAIN wlog :
        wlog[i].outcome = "ok" =>
            LET r == json_load(files[wlog[i].filepath].json)
                f == FrameOf(wlog[i])
            IN  /\ r.frame_number = wlog[i].frame_number
                /\ r.game_id = f.game_id
                /\ r.frame = f.frame
                /\ r.state = value(f.state)
                /\ r.score = f.score
                /\ r.guid = f.guid
                /\ r.full_reset = f.full_reset
                /\ r.available_actions =
                      [k \in DOMAIN f.available_actions |-> value(f.available_actions[k])]

C12_Witness ==
    \E i \in DOMAIN wlog :
        /\ wlog[i].outcome = "ok"
        /\ wlog[i].frame_number = 1
        /\ FrameOf(wlog[i]).score = 3
        /\ json_load(files[wlog[i].filepath].json).available_actions = <<1, 6>>
        /\ json_load(files[wlog[i].filepath].json).state = "WIN"

HasState(history, state) == \E i \in DOMAIN history : history[i].state = state

\* C13: in every run of the decision loop, once a WIN frame is received is_done
\* reports done and no action is chosen afterwards; while the latest frame is
\* NOT_PLAYED or GAME_OVER the action submitted is RESET; no other action is
\* submitted before a frame in an active state has been received; GAME_OVER
\* never makes is_done report done.
C13_LoopStates ==
    LET history == frames[Player] IN
    /\ HasState(history, WIN) =>
          /\ Last(history).state = WIN
          /\ call.op \in {"append_frame", "is_done"}
          /\ call.op = "is_done" => call.result
    /\ (call.op = "choose_action" /\ Last(history).state \in {NOT_PLAYED, GAME_OVER})
          => call.result = RESET
    /\ (call.op = "choose_action" /\ call.result # RESET)
          => HasState(history, NOT_FINISHED)
    /\ (call.op = "is_done" /\ Last(history).state = GAME_OVER) => ~call.result

C13_Witness ==
    /\ call.op = "is_done"
    /\ call.result
    /\ Len(frames[Player]) = 3
    /\ frames[Player][1].state = NOT_FINISHED
    /\ frames[Player][2].state = GAME_OVER
    /\ reasoning[RESET] # None

\* C14: storage being unavailable never stops the agent wherever it touches
\* storage, the creation of its directory at construction included: no call that
\* touches storage raises, and after it the instance is constructed and ready
\* for is_done and choose_action.
C14_StorageNeverStopsAgent ==
    call.op \in {"__init__", "append_frame"} =>
        /\ ~call.raised
        /\ status[call.agent] = "ready"

\* The write attempt that follows attempt i in the same session.
NextAttempt(i, j) ==
    /\ i < j
    /\ wlog[j].agent = wlog[i].agent
    /\ \A m \in DOMAIN wlog : (i < m /\ m < j) => wlog[m].agent # wlog[i].agent

\* The frame of a failed attempt stays in the history and is never retried.
FailedWriteDropped(i) ==
    LET a == wlog[i].agent  k == wlog[i].frame_number IN
    /\ Len(frames[a]) > k
    /\ frames[a][k + 1] = arrived[a][k + 1]
    /\ \A j \in DOMAIN wlog :
          (wlog[j].agent = a /\ wlog[j].frame_number = k) => j = i

\* Every record written is still complete and holds what was written.
RecordsUntouched ==
    \A i \in DOMAIN wlog : wlog[i].outcome = "ok" =>
        /\ wlog[i].filepath \in DOMAIN files
        /\ files[wlog[i].filepath] =
              [complete |-> TRUE,
               json |-> json_dump(frame_data(FrameOf(wlog[i]), wlog[i].frame_number,
                                             wlog[i].timestamp))]

\* C15 as stated: a failed write for the frame at index k is dropped without
\* retry, the frame stays in the history at index k, records already written are
\* untouched, and the next non-empty frame appended gets its own write attempt
\* with frame_number k+1.
C15_NextAttemptIsKPlusOne ==
    /\ RecordsUntouched
    /\ \A i \in DOMAIN wlog : wlog[i].outcome # "ok" =>
          /\ FailedWriteDropped(i)
          /\ \A j \in DOMAIN wlog :
                NextAttempt(i, j) => wlog[j].frame_number = wlog[i].frame_number + 1

\* C15 amended: a failed write for the frame at index k is dropped without
\* retry, the frame stays in the history at index k, records already written are
\* untouched, and the next non-empty frame appended gets its own write attempt
\* with its own history index as frame_number: k+1 when it is appended directly
\* after, larger by one for every empty frame appended in between; also when
\* every write fails.
C15_NextAttemptIsOwnIndex ==
    /\ RecordsUntouched
    /\ \A i \in DOMAIN wlog : wlog[i].outcome # "ok" =>
          /\ FailedWriteDropped(i)
          /\ \A j \in DOMAIN wlog : NextAttempt(i, j) =>
                LET a == wlog[i].agent  k == wlog[i].frame_number
                    n == wlog[j].frame_number
                IN  /\ n > k
                    /\ Len(frames[a]) > n
                    /\ ~is_empty(frames[a][n + 1])
                    /\ \A e \in (k + 1) .. (n - 1) : is_empty(frames[a][e + 1])
    /\ \A a \in Agents : \A k \in 0 .. Len(frames[a]) - 1 :
          ~is_empty(frames[a][k + 1]) =>
              \E i \in DOMAIN wlog : wlog[i].agent = a /\ wlog[i].frame_number = k

\* Every write of the session failed, with an empty frame between two of them.
C15_Witness ==
    /\ Len(wlog) = 2
    /\ \A i \in DOMAIN wlog : wlog[i].outcome # "ok"
    /\ wlog[1].frame_number = 0
    /\ wlog[2].frame_number = 2
    /\ Len(frames[Player]) = 3
    /\ is_empty(frames[Player][2])
    /\ \A p \in DOMAIN files : ~files[p].complete

\* C16: the records of a session are attempted in strictly increasing
\* frame_number order, and the attempt for the frame at index k is over (written
\* or failed) when append_frame returns, before any attempt with a larger
\* frame_number.
C16_WritesInSequenceOrder ==
    /\ \A i, j \in DOMAIN wlog :
          (i < j /\ wlog[i].agent = wlog[j].agent)
              => wlog[i].frame_number < wlog[j].frame_number
    /\ \A a \in Agents : \A k \in 0 .. Len(frames[a]) - 1 :
          ~is_empty(frames[a][k + 1]) =>
              \E i \in DOMAIN wlog : wlog[i].agent = a /\ wlog[i].frame_number = k
    /\ (call.op = "append_frame" /\ ~is_empty(call.frame)) =>
          /\ wlog # << >>
          /\ wlog[Len(wlog)].agent = call.agent
          /\ wlog[Len(wlog)].frame_number = Len(frames[call.agent]) - 1
          /\ wlog[Len(wlog)].outcome = call.outcome
          /\ call.outcome = "ok" =>
                (/\ wlog[Len(wlog)].filepath \in DOMAIN files
                 /\ files[wlog[Len(wlog)].filepath].complete)

C16_Witness ==
    /\ call.op = "append_frame"
    /\ call.outcome = "ok"
    /\ Len(wlog) = 2
    /\ wlog[1].agent = wlog[2].agent
    /\ wlog[1].outcome = "dump_error"
    /\ wlog[1].frame_number = 0
    /\ wlog[2].frame_number = 1

\* The code point of a character of a file name.
Ord(c) ==
    CASE c = "." -> 46
      [] c \in {"0", "1", "2", "3", "4", "5", "6", "7", "8", "9"} ->
            48 + (CHOOSE d \in 0 .. 9 : DigitChar(d) = c)
      [] c = "_" -> 95
      [] c = "a" -> 97
      [] c = "e" -> 101
      [] c = "f" -> 102
      [] c = "j" -> 106
      [] c = "m" -> 109
      [] c = "n" -> 110
      [] c = "o" -> 111
      [] c = "r" -> 114
      [] c = "s" -> 115

\* s < t for two strings, as Python compares them.
LexLess(s, t) ==
    \E n \in 0 .. Len(s) :
        /\ n <= Len(t)
        /\ \A k \in 1 .. n : s[k] = t[k]
        /\ \/ n = Len(s) /\ n < Len(t)
           \/ n < Len(s) /\ n < Len(t) /\ Ord(s[n + 1]) < Ord(t[n + 1])

\* C17: for any two records of one directory with frame numbers i < j, values of
\* 10000 and above included, the name of record i is lexicographically smaller
\* than the name of record j.
C17_NamesSortByFrameNumber ==
    (call.op = "filename" /\ call.i < call.j) => LexLess(call.name_i, call.name_j)

\* Below 10000 the four-character field is of fixed width and the names sort.
NamesSortBelowTenThousand ==
    (call.op = "filename" /\ call.i < call.j /\ call.j < 10000)
        => LexLess(call.name_i, call.name_j)

\* C18: when latest.state is an active state, the kinds choose_action draws from
\* and returns are exactly the kinds other than RESET, whatever
\* latest.available_actions contains.
C18_AllNonResetKinds ==
    (call.op = "choose_action" /\ call.latest.state \notin {NOT_PLAYED, GAME_OVER}) =>
        /\ call.candidates = GameAction \ {RESET}
        /\ call.action \in call.candidates
        /\ call.result = call.action

\* A kind the latest frame does not list as available is returned.
C18_Witness ==
    /\ call.op = "choose_action"
    /\ call.latest.state = NOT_FINISHED
    /\ call.latest.available_actions = <<ACTION1, ACTION6>>
    /\ call.result = ACTION2

\* C19: when set_data rejects the payload of a complex action, choose_action
\* raises to its caller and returns no action; it raises in no other case.
C19_SchemaViolationSurfaces ==
    call.op = "choose_action" =>
        /\ (is_complex(call.action) /\ ~SchemaAccepts(call.data, call.grid)) =>
              /\ call.raised
              /\ call.result = NoAction
              /\ call.attached = {}
        /\ call.raised => (is_complex(call.action) /\ ~SchemaAccepts(call.data, call.grid))

C19_Witness ==
    /\ call.op = "choose_action"
    /\ call.action = ACTION6
    /\ call.data = [x |-> GRID_MAX, y |-> 0]
    /\ call.grid = GRID_MAX - 1
    /\ call.raised
    /\ call.result = NoAction

\* C20: every record stored in the directory of game_id g carries g in its
\* game_id field, for every frame appended.
C20_RecordCarriesNamespaceId ==
    \A p \in DOMAIN files :
        files[p].complete => json_load(files[p].json).game_id = p[2]

====
